---- MODULE Spec2Model ----
(***************************************************************************)
(* State-machine model of the command workflow of machineConnector:        *)
(* the LangGraph graph built in graph/workflow.py, its nodes               *)
(* (graph/nodes.py), its routers (graph/edges.py), the safety filter       *)
(* (security/command_filter.py) and the driver loop of main.py             *)
(* (PowerShellCLI.execute_workflow).                                       *)
(*                                                                         *)
(* Python's None is the empty tuple <<>>; a present value v is <<v>>.      *)
(* The session state is one record `state`; a node returns a partial       *)
(* update (a function on some of the keys) that the engine merges.         *)
(***************************************************************************)
EXTENDS Integers, Sequences, FiniteSets, TLC

VARIABLES
    state,        \* CommandState: the channel values of the thread
    stage,        \* the node the engine runs next, or "END" / "FAULT"
    suspended,    \* TRUE while the graph is interrupted and main.py has control
    last_node,    \* the node that ran last ("START" before the first)
    exec_log,     \* history: one entry per call of the command executor
    gen_calls,    \* history: number of calls of command_generator.generate
    gen_context,  \* history: <<context>> of the last generate_command_node call
    suspend_snap, \* history: state and gen_calls at the pending interrupt, or None
    blocked,      \* history: the safety-block branch of await_confirmation ran
    hint_set,     \* history: the node that ran last returned a next_step
    dangerous_patterns,  \* CommandFilter.dangerous_patterns
    suspicious_patterns, \* CommandFilter.suspicious_patterns
    assess_log,   \* history: command and result of each direct assess call
    executor,     \* PowerShellExecutor: timeout and max_output_size
    call,         \* history: the last direct executor call and its outcome, or None
    session_id,   \* PowerShellCLI.session_id
    requests      \* history: one record per execute_workflow call of the CLI

filter_vars == <<dangerous_patterns, suspicious_patterns, assess_log>>

executor_vars == <<executor, call>>

cli_vars == <<session_id, requests>>

\* what a step of the session leaves alone
other_vars == <<filter_vars, executor_vars, cli_vars>>

session_vars == <<state, stage, suspended, last_node, exec_log, gen_calls,
                  gen_context, suspend_snap, blocked, hint_set>>

vars == <<state, stage, suspended, last_node, exec_log, gen_calls, gen_context,
          suspend_snap, blocked, hint_set, dangerous_patterns,
          suspicious_patterns, assess_log, executor, call, session_id,
          requests>>

----------------------------------------------------------------------------
(* Bounds *)

\* largest value of settings.max_retries explored (0 .. MaxRetriesBound)
MaxRetriesBound == 3

\* number of direct calls of CommandFilter.assess explored
MaxAssessCalls == 3

\* longest stdout / stderr a subprocess writes, in bytes
MaxStreamBytes == 2

\* largest value of PowerShellExecutor.max_output_size explored
MaxOutputSizeBound == 2

\* largest timeout in seconds explored; a subprocess runs up to one more
MaxTimeoutBound == 2

\* number of requests typed into one run of the CLI
MaxRequests == 2

----------------------------------------------------------------------------
(* Optional values and Python truthiness *)

None == <<>>
Some(v) == <<v>>
Val(x) == x[1]

\* bool(x) for an optional boolean: None and False are falsy
TruthyBool(x) == x = Some(TRUE)

\* bool(x) for an optional string: None and "" are falsy
TruthyStr(x) == x # None /\ x # Some("")

Range(s) == {s[i] : i \in 1..Len(s)}

----------------------------------------------------------------------------
(* security/command_filter.py and prompts/safety.py *)

\* The pattern lists, in source order.
DANGEROUS_PATTERNS ==
    << "Remove-Item.*-Recurse.*-Force", "Format-Volume", "Stop-Computer",
       "Restart-Computer", "Remove-Item.*\\Windows", "Set-ItemProperty.*HKLM",
       "Invoke-Expression", "iex\\s", "Start-Process.*-Verb RunAs",
       "Disable-WindowsDefender", "Set-ExecutionPolicy.*Unrestricted",
       "Remove-Item.*-Path\\s+C:\\", "Clear-RecycleBin.*-Force" >>

SUSPICIOUS_PATTERNS ==
    << "Remove-Item", "Clear-RecycleBin", "New-NetFirewallRule", "Set-Service",
       "Stop-Process", "Remove-Computer", "Disable-" >>

\* The command strings the generation service may return in the model.
Commands ==
    { "Get-ChildItem -Path .",
      "Stop-Process -Name notepad",
      "Remove-Item -Recurse -Force C:\\Windows",
      "disable-windowsdefender" }

\* The command strings assess is called on directly.
FilterCommands ==
    Commands \cup
    { "Format-Volume -DriveLetter D",
      "Remove-Item old.log; Stop-Process -Name notepad",
      "REMOVE-ITEM old.log",
      "Clear-RecycleBin -Force" }

\* re.search(pattern, text) without flags, on the texts of the model.
plain_search(pattern, text) ==
    CASE text = "Stop-Process -Name notepad" ->
            pattern \in {"Stop-Process"}
      [] text = "Remove-Item -Recurse -Force C:\\Windows" ->
            pattern \in {"Remove-Item.*-Recurse.*-Force",
                         "Remove-Item.*\\Windows", "Remove-Item"}
      [] text = "Disable-WindowsDefender" ->
            pattern \in {"Disable-WindowsDefender", "Disable-"}
      [] text = "Format-Volume -DriveLetter D" ->
            pattern \in {"Format-Volume"}
      [] text = "Remove-Item old.log; Stop-Process -Name notepad" ->
            pattern \in {"Remove-Item", "Stop-Process"}
      [] text = "Remove-Item old.log" ->
            pattern \in {"Remove-Item"}
      [] text = "Clear-RecycleBin -Force" ->
            pattern \in {"Clear-RecycleBin.*-Force", "Clear-RecycleBin"}
      [] OTHER -> FALSE

\* the texts that differ from a command in letter case only
recasings(command) ==
    {command} \cup
    CASE command = "disable-windowsdefender" -> {"Disable-WindowsDefender"}
      [] command = "REMOVE-ITEM old.log" -> {"Remove-Item old.log"}
      [] OTHER -> {}

\* variant: the IGNORECASE flag is missing
search_case_sensitive(pattern, command) == plain_search(pattern, command)

\* re.search(pattern, command, re.IGNORECASE)
search(pattern, command) ==
    \E text \in recasings(command) : plain_search(pattern, text)

\* [p for p in patterns if re.search(p, command, re.IGNORECASE)], in order
RECURSIVE matching(_, _)
matching(patterns, command) ==
    IF patterns = <<>> THEN <<>>
    ELSE (IF search(Head(patterns), command) THEN <<Head(patterns)>> ELSE <<>>)
         \o matching(Tail(patterns), command)

danger_warning(p) == <<"DANGER", p>>
caution_warning(p) == <<"CAUTION", p>>

\* variant: the suspicious patterns are scanned whatever the dangerous scan found
assess_with_no_short_circuit(dangerous, suspicious, command) ==
    LET matched_dangerous == matching(dangerous, command)
        matched_suspicious == matching(suspicious, command)
        warnings ==
            [i \in 1..Len(matched_dangerous) |-> danger_warning(matched_dangerous[i])]
            \o [i \in 1..Len(matched_suspicious) |-> caution_warning(matched_suspicious[i])]
    IN  [ level |-> IF matched_dangerous # <<>> THEN "dangerous"
                    ELSE IF matched_suspicious # <<>> THEN "suspicious"
                    ELSE "safe",
          matched_patterns |-> matched_dangerous \o matched_suspicious,
          warnings |-> warnings,
          allow |-> (matched_dangerous = <<>>) ]

\* CommandFilter.assess on a filter with the given pattern lists
assess_with(dangerous, suspicious, command) ==
    LET matched_dangerous == matching(dangerous, command)
        matched_suspicious ==
            IF matched_dangerous = <<>>
            THEN matching(suspicious, command) ELSE <<>>
        warnings ==
            [i \in 1..Len(matched_dangerous) |-> danger_warning(matched_dangerous[i])]
            \o [i \in 1..Len(matched_suspicious) |-> caution_warning(matched_suspicious[i])]
    IN  [ level |-> IF matched_dangerous # <<>> THEN "dangerous"
                    ELSE IF matched_suspicious # <<>> THEN "suspicious"
                    ELSE "safe",
          matched_patterns |-> matched_dangerous \o matched_suspicious,
          warnings |-> warnings,
          allow |-> (matched_dangerous = <<>>) ]

\* command_filter.assess of graph/nodes.py: the filter built at import time
assess(command) == assess_with(DANGEROUS_PATTERNS, SUSPICIOUS_PATTERNS, command)

----------------------------------------------------------------------------
(* tools/command_executor.py *)

\* A text is a sequence of characters, a byte string a sequence of bytes.
Bytes == {"a", "c3", "a9"}

RECURSIVE byte_strings(_)
byte_strings(n) ==
    IF n = 0 THEN {<<>>}
    ELSE LET shorter == byte_strings(n - 1)
         IN  shorter \cup {Append(b, x) : b \in shorter, x \in Bytes}

\* bytes.decode('utf-8', errors='replace'): "a" is ASCII, c3 a9 is the
\* two-byte encoding of U+00E9, any other c3 or a9 becomes U+FFFD
RECURSIVE decode(_)
decode(bytes) ==
    IF bytes = <<>> THEN <<>>
    ELSE IF Head(bytes) = "a" THEN <<"a">> \o decode(Tail(bytes))
    ELSE IF Head(bytes) = "c3" /\ Len(bytes) >= 2 /\ bytes[2] = "a9"
         THEN <<"U+00E9">> \o decode(Tail(Tail(bytes)))
    ELSE <<"U+FFFD">> \o decode(Tail(bytes))

output_truncated ==
    << "\n", ".", ".", ".", " ", "(", "o", "u", "t", "p", "u", "t", " ",
       "t", "r", "u", "n", "c", "a", "t", "e", "d", ")" >>

error_output_truncated ==
    << "\n", ".", ".", ".", " ", "(", "e", "r", "r", "o", "r", " ", "o",
       "u", "t", "p", "u", "t", " ", "t", "r", "u", "n", "c", "a", "t",
       "e", "d", ")" >>

\* str(n) for a natural number
RECURSIVE decimal(_)
decimal(n) ==
    LET digit(d) == <<"0", "1", "2", "3", "4", "5", "6", "7", "8", "9">>[d + 1]
    IN  IF n < 10 THEN <<digit(n)>>
        ELSE decimal(n \div 10) \o <<digit(n % 10)>>

\* f"Command timed out after {timeout} seconds"
timed_out_message(timeout) ==
    << "C", "o", "m", "m", "a", "n", "d", " ", "t", "i", "m", "e", "d",
       " ", "o", "u", "t", " ", "a", "f", "t", "e", "r", " " >>
    \o decimal(timeout) \o
    << " ", "s", "e", "c", "o", "n", "d", "s" >>

\* text[:n]
slice_to(text, n) == SubSeq(text, 1, IF n < Len(text) THEN n ELSE Len(text))

\* variant: the test for stderr looks at stdout
truncate_by_stdout(stdout, stderr, max_output_size) ==
    [ stdout |-> IF Len(stdout) > max_output_size
                 THEN slice_to(stdout, max_output_size) \o output_truncated
                 ELSE stdout,
      stderr |-> IF Len(stdout) > max_output_size
                 THEN slice_to(stderr, max_output_size) \o error_output_truncated
                 ELSE stderr ]

\* "Truncate output if too large"
truncate(stdout, stderr, max_output_size) ==
    [ stdout |-> IF Len(stdout) > max_output_size
                 THEN slice_to(stdout, max_output_size) \o output_truncated
                 ELSE stdout,
      stderr |-> IF Len(stderr) > max_output_size
                 THEN slice_to(stderr, max_output_size) \o error_output_truncated
                 ELSE stderr ]

\* What the operating system does with the subprocess of one call: the
\* launch raises, communicate() raises, or the process runs for `duration`
\* seconds, writes its streams and exits with `returncode`.
ErrorTexts == { <<"E", "N", "O", "E", "N", "T">> }

ReturnCodes == {0, 1}

Durations == 1..(MaxTimeoutBound + 1)

Processes ==
    { [kind |-> k, error |-> e, duration |-> d, returncode |-> rc,
       stdout |-> <<>>, stderr |-> <<>>] :
        k \in {"launch_error"}, e \in ErrorTexts, d \in {1}, rc \in {0} }
    \cup
    { [kind |-> k, error |-> e, duration |-> d, returncode |-> rc,
       stdout |-> <<>>, stderr |-> <<>>] :
        k \in {"run_error"}, e \in ErrorTexts, d \in Durations, rc \in {0} }
    \cup
    { [kind |-> k, error |-> e, duration |-> d, returncode |-> rc,
       stdout |-> out, stderr |-> err] :
        k \in {"runs"}, e \in {<<>>}, d \in Durations, rc \in ReturnCodes,
        out \in byte_strings(MaxStreamBytes),
        err \in byte_strings(MaxStreamBytes) }

\* the timeout argument of a call: absent, 0, or a number of seconds
TimeoutArguments == {None, Some(0), Some(MaxTimeoutBound)}

\* the dictionary of the `except Exception` handler
failure_result(error, shell_type) ==
    [ stdout |-> <<>>, stderr |-> error, return_code |-> -1,
      timed_out |-> FALSE, error |-> Some(error), shell_type |-> shell_type ]

\* a call returns a dictionary, or an exception leaves it; `killed` records
\* process.kill()
returned(result, killed) == [raised |-> FALSE, killed |-> killed, result |-> result]
propagated(error) ==
    [raised |-> TRUE, killed |-> FALSE, result |-> failure_result(error, None)]

\* timeout = timeout or self.timeout
effective_timeout(self, timeout_arg) ==
    IF timeout_arg = None \/ Val(timeout_arg) = 0 THEN self.timeout
    ELSE Val(timeout_arg)

\* variant: the result reports the return code of the killed process
\* (-9 after SIGKILL)
collect_with_process_returncode(self, shell_type, process, timeout) ==
    LET timed_out == process.duration > timeout
        streams == truncate(
            IF timed_out THEN <<>> ELSE decode(process.stdout),
            IF timed_out THEN timed_out_message(timeout) ELSE decode(process.stderr),
            self.max_output_size)
    IN  returned([ stdout |-> streams.stdout,
                   stderr |-> streams.stderr,
                   return_code |-> IF timed_out THEN -9
                                   ELSE process.returncode,
                   timed_out |-> timed_out,
                   error |-> None,
                   shell_type |-> shell_type ],
                 timed_out)

\* wait_for(process.communicate(), timeout), the truncation and the result
\* dictionary, for a process that was launched
collect(self, shell_type, process, timeout) ==
    LET timed_out == process.duration > timeout
        streams == truncate(
            IF timed_out THEN <<>> ELSE decode(process.stdout),
            IF timed_out THEN timed_out_message(timeout) ELSE decode(process.stderr),
            self.max_output_size)
    IN  returned([ stdout |-> streams.stdout,
                   stderr |-> streams.stderr,
                   return_code |-> IF timed_out THEN -1 ELSE process.returncode,
                   timed_out |-> timed_out,
                   error |-> None,
                   shell_type |-> shell_type ],
                 timed_out)

\* variant: the handler covers communicate() only, not the launch
run_subprocess_launch_unguarded(self, shell_type, process, timeout_arg) ==
    LET timeout == effective_timeout(self, timeout_arg)
    IN  IF process.kind = "launch_error"
        THEN propagated(process.error)
        ELSE IF process.kind = "run_error" /\ process.duration <= timeout
        THEN returned(failure_result(process.error, shell_type), FALSE)
        ELSE collect(self, shell_type, process, timeout)

\* the body the three methods share: create_subprocess_exec, the wait, and
\* the `except Exception` handler around both
run_subprocess(self, shell_type, process, timeout_arg) ==
    LET timeout == effective_timeout(self, timeout_arg)
    IN  IF process.kind = "launch_error"
        THEN returned(failure_result(process.error, shell_type), FALSE)
        ELSE IF process.kind = "run_error" /\ process.duration <= timeout
        THEN returned(failure_result(process.error, shell_type), FALSE)
        ELSE collect(self, shell_type, process, timeout)

\* the three methods differ in the interpreter and in the shell_type key
execute(self, process, timeout_arg) ==
    run_subprocess(self, None, process, timeout_arg)

execute_cmd(self, process, timeout_arg) ==
    run_subprocess(self, Some("cmd"), process, timeout_arg)

execute_bash(self, process, timeout_arg) ==
    run_subprocess(self, Some("bash"), process, timeout_arg)

\* PowerShellExecutor(timeout, max_output_size)
PowerShellExecutor(timeout, max_output_size) ==
    [timeout |-> timeout, max_output_size |-> max_output_size]

\* settings.max_execution_timeout and settings.max_output_size
max_execution_timeout == 30
max_output_size == 1048576

----------------------------------------------------------------------------
(* main.py: the initial state of a request *)

ShellKinds == {"powershell", "cmd", "bash"}

\* The requests of the model.
UserInputs ==
    { "list files in this folder",
      "read notes.txt and explain it",
      "summarize the news" }

\* keyword in user_input.lower(), for the keywords of generate_command_node
contains(user_input, keyword) ==
    CASE user_input = "read notes.txt and explain it" ->
            keyword \in {"read", "explain"}
      [] user_input = "summarize the news" ->
            keyword \in {"summarize"}
      [] OTHER -> FALSE

\* Feedback texts the human may type after a rejection ("" is Enter).
FeedbackTexts == {"", "wrong path"}

initial_state(user_input, max_retries) ==
    [ user_input |-> user_input,
      generated_command |-> None,
      command_explanation |-> None,
      safety_assessment |-> None,
      shell_type |-> "powershell",
      attempted_shells |-> <<>>,
      user_confirmed |-> None,
      confirmation_timestamp |-> None,
      user_feedback |-> None,
      execution_status |-> "pending",
      execution_result |-> None,
      execution_timestamp |-> None,
      validation_passed |-> None,
      validation_reasoning |-> None,
      validation_suggestions |-> None,
      requires_analysis |-> None,
      analysis_type |-> None,
      analysis_target |-> None,
      analysis_result |-> None,
      content_to_analyze |-> None,
      error_message |-> None,
      error_type |-> None,
      retry_count |-> 0,
      max_retries |-> max_retries,
      next_step |-> "generate" ]

now == Some("now")

\* values str(uuid4()) may return
ThreadIds == {"uuid-1", "uuid-2"}

----------------------------------------------------------------------------
(* graph/state.py: how the engine merges a node's partial update *)

\* attempted_shells is a set of shell kinds that only grows: a shell of the
\* update is added unless it is already recorded.
RECURSIVE add_shells(_, _)
add_shells(old, new) ==
    IF new = <<>> THEN old
    ELSE add_shells(IF Head(new) \in Range(old) THEN old
                    ELSE Append(old, Head(new)),
                    Tail(new))

\* variant: every channel takes the value the node returned
merge_last_value(s, update) ==
    [k \in DOMAIN s |-> IF k \in DOMAIN update THEN update[k] ELSE s[k]]

\* every other channel takes the value the node returned
merge(s, update) ==
    [k \in DOMAIN s |->
        IF k \in DOMAIN update
        THEN IF k = "attempted_shells"
             THEN add_shells(s[k], update[k])
             ELSE update[k]
        ELSE s[k]]

----------------------------------------------------------------------------
(* The external collaborators: what a call may return *)

llm_warning == <<"LLM", "review before running">>

explanation_of(command) == [alternative |-> "", text |-> command]

\* command_generator.generate: a parsed result, or an exception (ok = FALSE)
GenerationResults ==
    { [ok |-> TRUE, command |-> c, explanation |-> explanation_of(c),
       safety_level |-> "safe", warnings |-> <<>>] : c \in Commands }
    \cup
    { [ok |-> TRUE, command |-> "Stop-Process -Name notepad",
       explanation |-> explanation_of("Stop-Process -Name notepad"),
       safety_level |-> "caution", warnings |-> <<llm_warning>>],
      [ok |-> FALSE, command |-> "", explanation |-> explanation_of(""),
       safety_level |-> "", warnings |-> <<>>] }

\* PowerShellExecutor.execute / execute_cmd / execute_bash: the executor
\* catches every Exception itself and returns a result dictionary.
ExecutorResults ==
    { [stdout |-> "out", stderr |-> "", return_code |-> 0,
       timed_out |-> FALSE, error |-> None],
      [stdout |-> "", stderr |-> "not recognized", return_code |-> 1,
       timed_out |-> FALSE, error |-> None],
      [stdout |-> "", stderr |-> "Command timed out", return_code |-> -1,
       timed_out |-> TRUE, error |-> None],
      [stdout |-> "", stderr |-> "No such file", return_code |-> -1,
       timed_out |-> FALSE, error |-> Some("No such file")] }

\* result_validator.validate: passed is True, False or None; or it raises
ValidationResults ==
    { [ok |-> TRUE, passed |-> Some(TRUE)], [ok |-> TRUE, passed |-> Some(FALSE)],
      [ok |-> TRUE, passed |-> None], [ok |-> FALSE, passed |-> None] }

\* analyze_content_node: an analysis was produced, nothing was found to
\* analyze, or a reader / analyzer call raised
AnalysisOutcomes == {"analysis", "no_content", "raise"}

----------------------------------------------------------------------------
(* graph/nodes.py *)

analysis_keywords ==
    {"explain", "analyze", "check what", "what is the purpose", "understand",
     "summarize", "review", "describe", "tell me about"}

file_operation_keywords == {"read", "checkout", "clone", "download", "cat", "type"}

detect_requires_analysis(user_input) ==
    /\ \E k \in analysis_keywords : contains(user_input, k)
    /\ \E op \in file_operation_keywords : contains(user_input, op)

detect_analysis_type(user_input) ==
    IF ~detect_requires_analysis(user_input) THEN "general"
    ELSE IF contains(user_input, "purpose") \/ contains(user_input, "what is")
         THEN "purpose"
    ELSE IF contains(user_input, "security") \/ contains(user_input, "vulnerab")
         THEN "security"
    ELSE IF contains(user_input, "explain") \/ contains(user_input, "understand")
         THEN "explain"
    ELSE "general"

\* the context dictionary generate_command_node passes to the generator
generation_context(s) ==
    [ previous_feedback |-> IF TruthyStr(s.user_feedback) THEN s.user_feedback ELSE None,
      retry_count |-> IF s.retry_count > 0 THEN Some(s.retry_count) ELSE None ]

\* variant: an assessment already in the state is kept on regeneration
generate_command_node_keeps_assessment(s, gen) ==
    IF gen.ok
    THEN LET safety_assessment == assess(gen.command)
             requires_analysis == detect_requires_analysis(s.user_input)
         IN  [ generated_command |-> Some(gen.command),
               command_explanation |-> Some(gen.explanation),
               safety_assessment |->
                   IF s.safety_assessment # None THEN s.safety_assessment
                   ELSE
                   Some([ level |-> safety_assessment.level,
                          warnings |-> gen.warnings \o safety_assessment.warnings,
                          allow |-> safety_assessment.allow,
                          llm_safety |-> gen.safety_level,
                          filter_patterns |-> safety_assessment.matched_patterns ]),
               requires_analysis |-> Some(requires_analysis),
               analysis_type |-> IF requires_analysis
                                 THEN Some(detect_analysis_type(s.user_input))
                                 ELSE None,
               next_step |-> "confirm" ]
    ELSE [ error_message |-> Some("generation failed"),
           error_type |-> Some("generation_error"),
           execution_status |-> "error",
           next_step |-> "end" ]

generate_command_node(s, gen) ==
    IF gen.ok
    THEN LET safety_assessment == assess(gen.command)
             requires_analysis == detect_requires_analysis(s.user_input)
         IN  [ generated_command |-> Some(gen.command),
               command_explanation |-> Some(gen.explanation),
               safety_assessment |->
                   Some([ level |-> safety_assessment.level,
                          warnings |-> gen.warnings \o safety_assessment.warnings,
                          allow |-> safety_assessment.allow,
                          llm_safety |-> gen.safety_level,
                          filter_patterns |-> safety_assessment.matched_patterns ]),
               requires_analysis |-> Some(requires_analysis),
               analysis_type |-> IF requires_analysis
                                 THEN Some(detect_analysis_type(s.user_input))
                                 ELSE None,
               next_step |-> "confirm" ]
    ELSE [ error_message |-> Some("generation failed"),
           error_type |-> Some("generation_error"),
           execution_status |-> "error",
           next_step |-> "end" ]

\* A node either returns an update, raises the interrupt, or raises an
\* exception that leaves the graph.
returns(update) == [kind |-> "update", update |-> update]
interrupts == [kind |-> "interrupt", update |-> <<>>]
raises == [kind |-> "raise", update |-> <<>>]

\* variant: without the check for a decision that is already recorded
await_confirmation_node_no_resume_check(s) ==
    IF s.safety_assessment = None
    THEN raises
    ELSE IF ~Val(s.safety_assessment).allow
    THEN returns([ user_confirmed |-> Some(FALSE),
                   confirmation_timestamp |-> now,
                   user_feedback |-> Some("Command blocked due to safety concerns"),
                   error_message |-> Some("Command blocked"),
                   next_step |-> "end" ])
    ELSE interrupts

await_confirmation_node(s) ==
    IF s.user_confirmed # None
    THEN returns([confirmation_timestamp |-> s.confirmation_timestamp])
    ELSE IF s.safety_assessment = None
    THEN raises       \* None["allow"]: TypeError
    ELSE IF ~Val(s.safety_assessment).allow
    THEN returns([ user_confirmed |-> Some(FALSE),
                   confirmation_timestamp |-> now,
                   user_feedback |-> Some("Command blocked due to safety concerns"),
                   error_message |-> Some("Command blocked"),
                   next_step |-> "end" ])
    ELSE interrupts

\* which executor method execute_command_node calls for a shell_type
executor_for(shell_type) ==
    IF shell_type = "cmd" THEN "execute_cmd"
    ELSE IF shell_type = "bash" THEN "execute_bash"
    ELSE "execute"

\* variant: the return-code test of has_error is inverted
execute_command_node_inverted(s, result) ==
    LET shell_type == s.shell_type
        has_error == TruthyStr(result.error) \/ result.return_code = 0
        status == IF result.return_code = 0 THEN "success" ELSE "failed"
    IN  IF has_error /\ shell_type \notin Range(s.attempted_shells)
        THEN [ execution_status |-> status,
               execution_result |-> Some(result),
               execution_timestamp |-> now,
               attempted_shells |-> <<shell_type>>,
               next_step |-> "try_alternative" ]
        ELSE [ execution_status |-> status,
               execution_result |-> Some(result),
               execution_timestamp |-> now,
               attempted_shells |-> <<shell_type>>,
               next_step |-> "validate" ]

execute_command_node(s, result) ==
    LET shell_type == s.shell_type
        has_error == TruthyStr(result.error) \/ result.return_code # 0
        status == IF result.return_code = 0 THEN "success" ELSE "failed"
    IN  IF has_error /\ shell_type \notin Range(s.attempted_shells)
        THEN [ execution_status |-> status,
               execution_result |-> Some(result),
               execution_timestamp |-> now,
               attempted_shells |-> <<shell_type>>,
               next_step |-> "try_alternative" ]
        ELSE [ execution_status |-> status,
               execution_result |-> Some(result),
               execution_timestamp |-> now,
               attempted_shells |-> <<shell_type>>,
               next_step |-> "validate" ]

validate_result_node(s, validation) ==
    IF validation.ok
    THEN [ validation_passed |-> validation.passed,
           validation_reasoning |-> Some("reasoning"),
           validation_suggestions |-> Some(<<>>),
           next_step |-> "present" ]
    ELSE [ validation_passed |-> None,
           validation_reasoning |-> Some("Validation failed"),
           validation_suggestions |-> Some(<<>>),
           next_step |-> "present" ]

present_result_node(s) == [ next_step |-> "end" ]

\* variant: the limit is tested on the count before the increment
retry_node_tests_old_count(s) ==
    LET retry_count == s.retry_count + 1
    IN  IF s.retry_count >= s.max_retries
        THEN [ next_step |-> "end",
               error_message |-> Some("Maximum retries exceeded"),
               retry_count |-> retry_count ]
        ELSE [ retry_count |-> retry_count,
               next_step |-> "generate" ]

\* variant: the limit test is strict
retry_node_strict(s) ==
    LET retry_count == s.retry_count + 1
    IN  IF retry_count > s.max_retries
        THEN [ next_step |-> "end",
               error_message |-> Some("Maximum retries exceeded"),
               retry_count |-> retry_count ]
        ELSE [ retry_count |-> retry_count,
               next_step |-> "generate" ]

retry_node(s) ==
    LET retry_count == s.retry_count + 1
    IN  IF retry_count >= s.max_retries
        THEN [ next_step |-> "end",
               error_message |-> Some("Maximum retries exceeded"),
               retry_count |-> retry_count ]
        ELSE [ retry_count |-> retry_count,
               next_step |-> "generate" ]

\* variant: the handler of a failed analysis stores a placeholder result
analyze_content_node_placeholder(s, outcome) ==
    CASE outcome = "analysis" ->
            [ analysis_result |-> Some("analysis"), next_step |-> "present" ]
      [] outcome = "no_content" ->
            [ error_message |-> Some("Could not find content to analyze"),
              next_step |-> "present" ]
      [] OTHER ->
            [ error_message |-> Some("Analysis failed"),
              error_type |-> Some("analysis_error"),
              analysis_result |-> Some("analysis unavailable"),
              next_step |-> "present" ]

analyze_content_node(s, outcome) ==
    CASE outcome = "analysis" ->
            [ analysis_result |-> Some("analysis"), next_step |-> "present" ]
      [] outcome = "no_content" ->
            [ error_message |-> Some("Could not find content to analyze"),
              next_step |-> "present" ]
      [] OTHER ->
            [ error_message |-> Some("Analysis failed"),
              error_type |-> Some("analysis_error"),
              next_step |-> "present" ]

\* variant: a fourth interpreter in the fallback order
shell_order_with_pwsh == <<"powershell", "cmd", "bash", "pwsh">>

shell_order == <<"powershell", "cmd", "bash">>

\* variant: the loop does not stop at the first shell it finds
last_untried(order, attempted_shells) ==
    LET untried == {i \in 1..Len(order) : order[i] \notin Range(attempted_shells)}
    IN  IF untried = {} THEN None
        ELSE Some(order[CHOOSE i \in untried : \A j \in untried : j <= i])

\* the first shell of shell_order not in attempted_shells, or None
RECURSIVE first_untried(_, _)
first_untried(order, attempted_shells) ==
    IF order = <<>> THEN None
    ELSE IF Head(order) \notin Range(attempted_shells) THEN Some(Head(order))
    ELSE first_untried(Tail(order), attempted_shells)

\* variant: the shell after the current one in shell_order is taken, whether
\* or not it was attempted
try_alternative_shell_node_cycles(s, gen) ==
    LET at == CHOOSE i \in 1..Len(shell_order) : shell_order[i] = s.shell_type
        next_shell == Some(shell_order[(at % Len(shell_order)) + 1])
    IN  IF gen.ok
        THEN LET safety_assessment == assess(gen.command)
             IN  [ generated_command |-> Some(gen.command),
                   command_explanation |->
                       Some([alternative |-> Val(next_shell),
                             text |-> gen.explanation.text]),
                   safety_assessment |->
                       Some([ level |-> safety_assessment.level,
                              warnings |-> safety_assessment.warnings,
                              allow |-> safety_assessment.allow ]),
                   shell_type |-> Val(next_shell),
                   user_confirmed |-> Some(TRUE),
                   next_step |-> "execute" ]
        ELSE [ error_message |-> Some("Failed to generate alternative"),
               error_type |-> Some("alternative_generation_error"),
               next_step |-> "present" ]

\* variant: a shell fallback uses up a retry
try_alternative_shell_node_counts_retry(s, gen) ==
    LET next_shell == first_untried(shell_order, s.attempted_shells)
    IN  IF next_shell = None
        THEN [ error_message |-> Some("Execution failed in all shells"),
               next_step |-> "present" ]
        ELSE IF gen.ok
        THEN LET safety_assessment == assess(gen.command)
             IN  [ generated_command |-> Some(gen.command),
                   command_explanation |->
                       Some([alternative |-> Val(next_shell),
                             text |-> gen.explanation.text]),
                   safety_assessment |->
                       Some([ level |-> safety_assessment.level,
                              warnings |-> safety_assessment.warnings,
                              allow |-> safety_assessment.allow ]),
                   shell_type |-> Val(next_shell),
                   user_confirmed |-> Some(TRUE),
                   retry_count |-> s.retry_count + 1,
                   next_step |-> "execute" ]
        ELSE [ error_message |-> Some("Failed to generate alternative"),
               error_type |-> Some("alternative_generation_error"),
               next_step |-> "present" ]

try_alternative_shell_node(s, gen) ==
    LET next_shell == first_untried(shell_order, s.attempted_shells)
    IN  IF next_shell = None
        THEN [ error_message |-> Some("Execution failed in all shells"),
               next_step |-> "present" ]
        ELSE IF gen.ok
        THEN LET safety_assessment == assess(gen.command)
             IN  [ generated_command |-> Some(gen.command),
                   command_explanation |->
                       Some([alternative |-> Val(next_shell),
                             text |-> gen.explanation.text]),
                   safety_assessment |->
                       Some([ level |-> safety_assessment.level,
                              warnings |-> safety_assessment.warnings,
                              allow |-> safety_assessment.allow ]),
                   shell_type |-> Val(next_shell),
                   user_confirmed |-> Some(TRUE),
                   next_step |-> "execute" ]
        ELSE [ error_message |-> Some("Failed to generate alternative"),
               error_type |-> Some("alternative_generation_error"),
               next_step |-> "present" ]

\* whether try_alternative_shell_node reaches command_generator.generate
alternative_generates(s) == first_untried(shell_order, s.attempted_shells) # None

----------------------------------------------------------------------------
(* graph/edges.py and the edges of graph/workflow.py *)

\* variant: a rejection is retried whether or not feedback was given
route_after_confirmation_any_rejection(s) ==
    IF TruthyBool(s.user_confirmed) THEN "execute_command"
    ELSE "retry_node"

\* variant: an allowed command is executed whatever the decision was
route_after_confirmation_safety_only(s) ==
    IF s.safety_assessment # None /\ Val(s.safety_assessment).allow
            /\ ~TruthyStr(s.error_message)
    THEN "execute_command"
    ELSE IF TruthyStr(s.user_feedback) THEN "retry_node"
    ELSE "end"

route_after_confirmation(s) ==
    IF TruthyBool(s.user_confirmed) THEN "execute_command"
    ELSE IF TruthyStr(s.user_feedback) THEN "retry_node"
    ELSE "end"

\* variant: the try_alternative hint is not looked at
route_after_execution_status_only(s) ==
    IF s.next_step = "intelligent_retry" THEN "intelligent_retry"
    ELSE IF s.execution_status \in {"success", "failed"} THEN "validate_result"
    ELSE "present_result"

route_after_execution(s) ==
    IF s.next_step = "intelligent_retry" THEN "intelligent_retry"
    ELSE IF s.next_step = "try_alternative" THEN "try_alternative_shell"
    ELSE IF s.execution_status \in {"success", "failed"} THEN "validate_result"
    ELSE "present_result"

\* variant: the comparison admits retry_count = max_retries
route_after_retry_inclusive(s) ==
    IF s.retry_count <= s.max_retries THEN "generate_command" ELSE "end"

route_after_retry(s) ==
    IF s.retry_count < s.max_retries THEN "generate_command" ELSE "end"

\* variant: the analysis flag is not looked at
route_after_validation_always_present(s) == "present_result"

route_after_validation(s) ==
    IF TruthyBool(s.requires_analysis) THEN "analyze_content" ELSE "present_result"

\* variant: the edge out of intelligent_retry leads to the validation
next_node_retry_to_validation(node, s) ==
    CASE node = "START" -> "generate_command"
      [] node = "generate_command" -> "await_confirmation"
      [] node = "await_confirmation" ->
            LET r == route_after_confirmation(s)
            IN  IF r = "end" THEN "END" ELSE r
      [] node = "execute_command" -> route_after_execution(s)
      [] node = "intelligent_retry" -> "validate_result"
      [] node = "validate_result" -> route_after_validation(s)
      [] node = "analyze_content" -> "present_result"
      [] node = "present_result" -> "END"
      [] node = "retry_node" ->
            LET r == route_after_retry(s)
            IN  IF r = "end" THEN "END" ELSE r
      [] node = "try_alternative_shell" -> "execute_command"
      [] OTHER -> "END"

\* create_workflow: the node that follows `node` once its update is merged
\* into s ("END" is the graph's END).
next_node(node, s) ==
    CASE node = "START" -> "generate_command"
      [] node = "generate_command" -> "await_confirmation"
      [] node = "await_confirmation" ->
            LET r == route_after_confirmation(s)
            IN  IF r = "end" THEN "END" ELSE r
      [] node = "execute_command" -> route_after_execution(s)
      [] node = "intelligent_retry" -> "execute_command"
      [] node = "validate_result" -> route_after_validation(s)
      [] node = "analyze_content" -> "present_result"
      [] node = "present_result" -> "END"
      [] node = "retry_node" ->
            LET r == route_after_retry(s)
            IN  IF r = "end" THEN "END" ELSE r
      [] node = "try_alternative_shell" -> "execute_command"
      [] OTHER -> "END"

----------------------------------------------------------------------------
(* The engine: one action per node, and the driver loop of main.py *)

\* PowerShellCLI.execute_workflow builds the initial state and starts the
\* stream; settings.max_retries comes from the environment.
Init ==
    /\ \E u \in UserInputs, m \in 0..MaxRetriesBound :
            state = initial_state(u, m)
    /\ stage = next_node("START", state)
    /\ suspended = FALSE
    /\ last_node = "START"
    /\ exec_log = <<>>
    /\ gen_calls = 0
    /\ gen_context = None
    /\ suspend_snap = None
    /\ blocked = FALSE
    /\ hint_set = FALSE
    /\ dangerous_patterns = DANGEROUS_PATTERNS
    /\ suspicious_patterns = SUSPICIOUS_PATTERNS
    /\ assess_log = <<>>
    /\ executor = PowerShellExecutor(max_execution_timeout, max_output_size)
    /\ call = None
    /\ session_id = "uuid-1"
    /\ requests = <<[thread_id |-> session_id]>>

\* the engine merges the update of `node` and follows its outgoing edge
Step(node, update) ==
    /\ state' = merge(state, update)
    /\ stage' = next_node(node, state')
    /\ last_node' = node
    /\ hint_set' = ("next_step" \in DOMAIN update)
    /\ suspended' = FALSE
    /\ UNCHANGED other_vars

Running(node) == stage = node /\ ~suspended

GenerateCommand ==
    /\ Running("generate_command")
    /\ \E gen \in GenerationResults :
            Step("generate_command", generate_command_node(state, gen))
    /\ gen_calls' = gen_calls + 1
    /\ gen_context' = Some(generation_context(state))
    /\ UNCHANGED <<exec_log, suspend_snap, blocked>>

AwaitConfirmation ==
    /\ Running("await_confirmation")
    /\ LET r == await_confirmation_node(state)
       IN  CASE r.kind = "update" ->
                    /\ Step("await_confirmation", r.update)
                    /\ blocked' = (blocked \/ "error_message" \in DOMAIN r.update)
                    /\ suspend_snap' = None
             [] r.kind = "interrupt" ->
                    \* the checkpoint keeps the state; main.py gets control
                    /\ suspended' = TRUE
                    /\ suspend_snap' = Some([state |-> state, gen_calls |-> gen_calls])
                    /\ UNCHANGED <<state, stage, last_node, blocked, hint_set>>
                    /\ UNCHANGED other_vars
             [] OTHER ->
                    \* the exception leaves astream; execute_workflow reports it
                    /\ stage' = "FAULT"
                    /\ last_node' = "await_confirmation"
                    /\ hint_set' = FALSE
                    /\ UNCHANGED <<state, suspended, suspend_snap, blocked>>
                    /\ UNCHANGED other_vars
    /\ UNCHANGED <<exec_log, gen_calls, gen_context>>

\* variant: the decision is written into a record built anew
Resume_rebuilding_record ==
    /\ suspended
    /\ \E confirmed \in BOOLEAN, text \in FeedbackTexts :
        LET feedback == IF confirmed THEN None ELSE Some(text)
        IN  state' = merge(initial_state(state.user_input, state.max_retries),
                [ user_confirmed |-> Some(confirmed),
                  user_feedback |-> IF TruthyStr(feedback) THEN feedback ELSE None,
                  confirmation_timestamp |-> now ])
    /\ suspended' = FALSE
    /\ UNCHANGED <<stage, last_node, exec_log, gen_calls, gen_context,
                   suspend_snap, blocked, hint_set>>
    /\ UNCHANGED other_vars

\* variant: the stream is started again from START after the merge
Resume_from_start ==
    /\ suspended
    /\ \E confirmed \in BOOLEAN, text \in FeedbackTexts :
        LET feedback == IF confirmed THEN None ELSE Some(text)
        IN  state' = merge(state,
                [ user_confirmed |-> Some(confirmed),
                  user_feedback |-> IF TruthyStr(feedback) THEN feedback ELSE None,
                  confirmation_timestamp |-> now ])
    /\ suspended' = FALSE
    /\ stage' = next_node("START", state')
    /\ UNCHANGED <<last_node, exec_log, gen_calls, gen_context,
                   suspend_snap, blocked, hint_set>>
    /\ UNCHANGED other_vars

\* main.py: Confirm.ask / Prompt.ask, aupdate_state, then astream(None, config)
Resume ==
    /\ suspended
    /\ \E confirmed \in BOOLEAN, text \in FeedbackTexts :
        LET feedback == IF confirmed THEN None ELSE Some(text)
        IN  state' = merge(state,
                [ user_confirmed |-> Some(confirmed),
                  user_feedback |-> IF TruthyStr(feedback) THEN feedback ELSE None,
                  confirmation_timestamp |-> now ])
    /\ suspended' = FALSE
    /\ UNCHANGED <<stage, last_node, exec_log, gen_calls, gen_context,
                   suspend_snap, blocked, hint_set>>
    /\ UNCHANGED other_vars

ExecuteCommand ==
    /\ Running("execute_command")
    /\ \E result \in ExecutorResults :
            Step("execute_command", execute_command_node(state, result))
    /\ exec_log' = Append(exec_log,
            [ shell |-> state.shell_type,
              executor |-> executor_for(state.shell_type),
              command |-> state.generated_command,
              allow |-> Val(state.safety_assessment).allow,
              confirmed |-> state.user_confirmed,
              attempted |-> state.attempted_shells,
              diagnosis |-> FALSE ])
    /\ UNCHANGED <<gen_calls, gen_context, suspend_snap, blocked>>

ValidateResult ==
    /\ Running("validate_result")
    /\ \E validation \in ValidationResults :
            Step("validate_result", validate_result_node(state, validation))
    /\ UNCHANGED <<exec_log, gen_calls, gen_context, suspend_snap, blocked>>

AnalyzeContent ==
    /\ Running("analyze_content")
    /\ \E outcome \in AnalysisOutcomes :
            Step("analyze_content", analyze_content_node(state, outcome))
    /\ UNCHANGED <<exec_log, gen_calls, gen_context, suspend_snap, blocked>>

PresentResult ==
    /\ Running("present_result")
    /\ Step("present_result", present_result_node(state))
    /\ UNCHANGED <<exec_log, gen_calls, gen_context, suspend_snap, blocked>>

RetryNode ==
    /\ Running("retry_node")
    /\ Step("retry_node", retry_node(state))
    /\ UNCHANGED <<exec_log, gen_calls, gen_context, suspend_snap, blocked>>

TryAlternativeShell ==
    /\ Running("try_alternative_shell")
    /\ \E gen \in GenerationResults :
            Step("try_alternative_shell", try_alternative_shell_node(state, gen))
    /\ gen_calls' = IF alternative_generates(state) THEN gen_calls + 1 ELSE gen_calls
    /\ UNCHANGED <<exec_log, gen_context, suspend_snap, blocked>>

Next ==
    \/ GenerateCommand
    \/ AwaitConfirmation
    \/ Resume
    \/ ExecuteCommand
    \/ ValidateResult
    \/ AnalyzeContent
    \/ PresentResult
    \/ RetryNode
    \/ TryAlternativeShell

Spec == Init /\ [][Next]_vars

\* astream runs the next node as long as there is one, and the human at the
\* prompt answers: a step that is possible is eventually taken
SpecLive == Init /\ [][Next]_vars /\ WF_vars(Next)

\* the graph reached END, or an exception ended the stream
Terminal == stage \in {"END", "FAULT"}

\* execute_workflow, "Display results": which of display_analysis_results
\* and display_execution_results run on the final state, and the message
\* display_error is called with, if it is called
display_results(final_state) ==
    [ analysis |-> final_state.analysis_result # None,
      execution |-> final_state.execution_result # None,
      error |-> IF final_state.execution_result # None THEN None
                ELSE IF TruthyStr(final_state.error_message)
                     THEN final_state.error_message
                ELSE None ]

----------------------------------------------------------------------------
(* The safety filter on its own: direct calls of CommandFilter.assess *)

\* variant: a call promotes the suspicious patterns it matched
AssessCall_promoting ==
    /\ Len(assess_log) < MaxAssessCalls
    /\ \E command \in FilterCommands :
        LET result == assess_with(dangerous_patterns, suspicious_patterns, command)
        IN  /\ assess_log' = Append(assess_log, [command |-> command, result |-> result])
            /\ dangerous_patterns' =
                    IF result.level = "suspicious"
                    THEN dangerous_patterns \o result.matched_patterns
                    ELSE dangerous_patterns
    /\ UNCHANGED suspicious_patterns
    /\ UNCHANGED session_vars
    /\ UNCHANGED executor_vars
    /\ UNCHANGED cli_vars

\* one call of assess on the filter instance; the session is not involved
AssessCall ==
    /\ Len(assess_log) < MaxAssessCalls
    /\ \E command \in FilterCommands :
        assess_log' = Append(assess_log,
            [ command |-> command,
              result |-> assess_with(dangerous_patterns, suspicious_patterns, command) ])
    /\ UNCHANGED <<dangerous_patterns, suspicious_patterns>>
    /\ UNCHANGED session_vars
    /\ UNCHANGED executor_vars
    /\ UNCHANGED cli_vars

NextAssess == AssessCall

\* the filter is built once (CommandFilter.__init__); any session may exist
SpecAssess == Init /\ [][NextAssess]_vars

----------------------------------------------------------------------------
(* The command executor on its own: direct calls of its three methods *)

\* settings.max_retries
max_retries == 3

\* the tools are built and a first request is about to enter the graph
NoSessionStep ==
    /\ state = initial_state("list files in this folder", max_retries)
    /\ stage = next_node("START", state)
    /\ suspended = FALSE
    /\ last_node = "START"
    /\ exec_log = <<>>
    /\ gen_calls = 0
    /\ gen_context = None
    /\ suspend_snap = None
    /\ blocked = FALSE
    /\ hint_set = FALSE
    /\ dangerous_patterns = DANGEROUS_PATTERNS
    /\ suspicious_patterns = SUSPICIOUS_PATTERNS
    /\ assess_log = <<>>

\* an executor built with some timeout and some output ceiling; no request
\* has started a session step yet
InitExecutor ==
    /\ NoSessionStep
    /\ session_id = "uuid-1"
    /\ requests = <<>>
    /\ \E timeout \in 1..MaxTimeoutBound, size \in 0..MaxOutputSizeBound :
            executor = PowerShellExecutor(timeout, size)
    /\ call = None

\* one call of a method; the executor keeps nothing from a call, so a
\* behaviour holds a single call
Called(method, process, timeout_arg, outcome) ==
    /\ call' = Some([ method |-> method, process |-> process,
                      timeout |-> effective_timeout(executor, timeout_arg),
                      outcome |-> outcome ])
    /\ UNCHANGED executor
    /\ UNCHANGED session_vars
    /\ UNCHANGED filter_vars
    /\ UNCHANGED cli_vars

CallExecute ==
    /\ call = None
    /\ \E process \in Processes, timeout_arg \in TimeoutArguments :
            Called("execute", process, timeout_arg,
                   execute(executor, process, timeout_arg))

CallExecuteCmd ==
    /\ call = None
    /\ \E process \in Processes, timeout_arg \in TimeoutArguments :
            Called("execute_cmd", process, timeout_arg,
                   execute_cmd(executor, process, timeout_arg))

CallExecuteBash ==
    /\ call = None
    /\ \E process \in Processes, timeout_arg \in TimeoutArguments :
            Called("execute_bash", process, timeout_arg,
                   execute_bash(executor, process, timeout_arg))

NextExecutor ==
    \/ CallExecute
    \/ CallExecuteCmd
    \/ CallExecuteBash

SpecExecutor == InitExecutor /\ [][NextExecutor]_vars

----------------------------------------------------------------------------
(* The intelligent retry. workflow.py imports intelligent_retry_node from   *)
(* graph/nodes.py, which does not define it, and no node there returns the  *)
(* "intelligent_retry" hint; both are taken from the design document.       *)

\* settings.max_auto_retries
max_auto_retries == 2

CorrectedCommands == {"Get-ChildItem -Force"}

\* the diagnosis service: a corrected command, no correction, or a failure
DiagnosisResults ==
    { [ok |-> TRUE, corrected_command |-> Some(c)] : c \in CorrectedCommands }
    \cup
    { [ok |-> TRUE, corrected_command |-> None],
      [ok |-> FALSE, corrected_command |-> None] }

\* Execute when the executor's result calls for a structured diagnosis
execute_command_node_needs_diagnosis(s, result) ==
    [ execution_status |-> IF result.return_code = 0 THEN "success" ELSE "failed",
      execution_result |-> Some(result),
      execution_timestamp |-> now,
      next_step |-> "intelligent_retry" ]

\* IntelligentRetry: substitutes the corrected command of the diagnosis
intelligent_retry_node(s, diagnosis) ==
    IF diagnosis.ok /\ diagnosis.corrected_command # None
    THEN [ generated_command |-> diagnosis.corrected_command,
           next_step |-> "execute" ]
    ELSE [ next_step |-> "execute" ]

\* number of executions of this request that asked for a diagnosis
auto_retry_count == Cardinality({i \in 1..Len(exec_log) : exec_log[i].diagnosis})

ExecuteCommandNeedsDiagnosis ==
    /\ Running("execute_command")
    /\ auto_retry_count < max_auto_retries
    /\ \E result \in ExecutorResults :
        /\ TruthyStr(result.error) \/ result.return_code # 0
        /\ Step("execute_command", execute_command_node_needs_diagnosis(state, result))
    /\ exec_log' = Append(exec_log,
            [ shell |-> state.shell_type,
              executor |-> executor_for(state.shell_type),
              command |-> state.generated_command,
              allow |-> Val(state.safety_assessment).allow,
              confirmed |-> state.user_confirmed,
              attempted |-> state.attempted_shells,
              diagnosis |-> TRUE ])
    /\ UNCHANGED <<gen_calls, gen_context, suspend_snap, blocked>>

IntelligentRetry ==
    /\ Running("intelligent_retry")
    /\ \E diagnosis \in DiagnosisResults :
            Step("intelligent_retry", intelligent_retry_node(state, diagnosis))
    /\ UNCHANGED <<exec_log, gen_calls, gen_context, suspend_snap, blocked>>

NextDiagnosis ==
    \/ Next
    \/ ExecuteCommandNeedsDiagnosis
    \/ IntelligentRetry

\* a request under the default settings.max_retries
InitDiagnosis == Init /\ state.max_retries = max_retries

SpecDiagnosis == InitDiagnosis /\ [][NextDiagnosis]_vars

----------------------------------------------------------------------------
(* The interactive loop of main.py: one request after another *)

\* MemorySaver: the values checkpointed under a thread_id, or None. `state`
\* holds the values of the thread the CLI uses.
checkpoint(id) ==
    IF id = session_id /\ requests # <<>> THEN Some(state) ELSE None

\* PowerShellCLI() is built and the first request is typed
InitCli ==
    /\ \E u \in UserInputs : state = initial_state(u, max_retries)
    /\ stage = next_node("START", state)
    /\ suspended = FALSE
    /\ last_node = "START"
    /\ exec_log = <<>>
    /\ gen_calls = 0
    /\ gen_context = None
    /\ suspend_snap = None
    /\ blocked = FALSE
    /\ hint_set = FALSE
    /\ dangerous_patterns = DANGEROUS_PATTERNS
    /\ suspicious_patterns = SUSPICIOUS_PATTERNS
    /\ assess_log = <<>>
    /\ executor = PowerShellExecutor(max_execution_timeout, max_output_size)
    /\ call = None
    /\ session_id \in ThreadIds
    /\ requests = <<[thread_id |-> session_id]>>

\* run_interactive_loop: execute_workflow has returned and the next request
\* is typed; astream(initial_state, config) writes the input into the
\* thread named by config and starts the graph at START
NewRequest ==
    /\ stage \in {"END", "FAULT"}
    /\ Len(requests) < MaxRequests
    /\ \E u \in UserInputs :
            state' = merge(state, initial_state(u, max_retries))
    /\ stage' = next_node("START", state')
    /\ requests' = Append(requests, [thread_id |-> session_id])
    /\ suspended' = FALSE
    /\ last_node' = "START"
    /\ exec_log' = <<>>
    /\ gen_calls' = 0
    /\ gen_context' = None
    /\ suspend_snap' = None
    /\ blocked' = FALSE
    /\ hint_set' = FALSE
    /\ UNCHANGED session_id
    /\ UNCHANGED filter_vars
    /\ UNCHANGED executor_vars

NextCli ==
    \/ Next
    \/ NewRequest

SpecCli == InitCli /\ [][NextCli]_vars

----------------------------------------------------------------------------
(* Properties *)

allowed(s) == s.safety_assessment # None /\ Val(s.safety_assessment).allow
denied(s) == s.safety_assessment # None /\ ~Val(s.safety_assessment).allow

\* C1: every call of the command executor happens in a state whose safety
\* verdict has allow = true (a denied command is never executed).
C1_ExecutorOnlyWhenAllowed ==
    \A i \in 1..Len(exec_log) : exec_log[i].allow

\* C2: once await_confirmation has taken its safety-block branch, the engine
\* is at END with user_confirmed = False: it does not suspend and does not go
\* on to retry_node, generate_command or execute_command.
C2_BlockGoesToTerminal ==
    blocked => /\ stage = "END"
               /\ ~suspended
               /\ state.user_confirmed = Some(FALSE)

\* C3: when await_confirmation runs on an allowed command with a recorded
\* decision, the next node is execute_command if confirmed, retry_node if
\* rejected with non-empty feedback, and END if rejected without feedback.
C3_RouteAfterDecision ==
    [][ ( /\ Running("await_confirmation")
          /\ state.user_confirmed # None
          /\ allowed(state) )
        => stage' = IF state.user_confirmed = Some(TRUE) THEN "execute_command"
                    ELSE IF state.user_feedback # None /\ state.user_feedback # Some("")
                         THEN "retry_node"
                    ELSE "END" ]_vars

C3_Witness ==
    /\ last_node = "await_confirmation"
    /\ stage = "retry_node"
    /\ ~blocked
    /\ state.user_feedback = Some("wrong path")

\* C4: the engine is suspended only at await_confirmation with no decision
\* recorded; await_confirmation entered with no decision and an allowed
\* command suspends without routing on; nothing else suspends.
C4_SuspendOnlyAtConfirmation ==
    [][ /\ suspended' => ( /\ stage' = "await_confirmation"
                           /\ state'.user_confirmed = None
                           /\ last_node' = last_node )
        /\ (suspended' /\ ~suspended) => stage = "await_confirmation"
        /\ ( /\ Running("await_confirmation")
             /\ state.user_confirmed = None
             /\ allowed(state) )
           => (suspended' /\ stage' = stage /\ state' = state) ]_vars

C4_Witness ==
    /\ suspended
    /\ stage = "await_confirmation"
    /\ state.retry_count = 0
    /\ allowed(state)

\* C5: from the interrupt until await_confirmation routes on, the engine
\* stays at await_confirmation, the generation service is not called, and
\* generated_command, command_explanation and safety_assessment are those of
\* the suspension.
C5_ResumeContinuesAtConfirmation ==
    suspend_snap # None =>
        /\ stage = "await_confirmation"
        /\ gen_calls = Val(suspend_snap).gen_calls
        /\ state.generated_command = Val(suspend_snap).state.generated_command
        /\ state.command_explanation = Val(suspend_snap).state.command_explanation
        /\ state.safety_assessment = Val(suspend_snap).state.safety_assessment

C5_Witness ==
    /\ suspend_snap # None
    /\ ~suspended
    /\ state.user_confirmed = Some(FALSE)
    /\ state.user_feedback = Some("wrong path")

\* C6: retry_count <= max_retries in every state of the session.
C6_RetryCountBounded ==
    state.retry_count <= state.max_retries

\* C7: a visit to retry_node adds 1 to retry_count; with the new count at or
\* above max_retries the engine ends with the retries-exceeded error,
\* otherwise generate_command runs next and the feedback is still in the
\* state and is passed in the context of that generation call.
C7_RetryStep ==
    [][ /\ Running("retry_node") =>
            /\ state'.retry_count = state.retry_count + 1
            /\ IF state'.retry_count >= state.max_retries
               THEN /\ stage' = "END"
                    /\ state'.error_message = Some("Maximum retries exceeded")
               ELSE /\ stage' = "generate_command"
                    /\ state'.user_feedback = state.user_feedback
                    /\ state'.user_feedback \notin {None, Some("")}
        /\ (Running("generate_command") /\ last_node = "retry_node") =>
            /\ state.user_feedback \notin {None, Some("")}
            /\ Val(gen_context').previous_feedback = state.user_feedback
            /\ Val(gen_context').retry_count = Some(state.retry_count) ]_vars

C7_Witness ==
    /\ last_node = "generate_command"
    /\ gen_context # None
    /\ Val(gen_context).previous_feedback = Some("wrong path")
    /\ state.retry_count = 1

\* C8 as stated: with max_retries = 1 the first rejection with feedback
\* (retry_count 0 -> 1) routes to generate_command.
C8_FirstRejectionRegenerates ==
    ( /\ state.max_retries = 1
      /\ last_node = "retry_node"
      /\ state.retry_count = 1 )
    => stage = "generate_command"

\* C8 amended: with max_retries = 1 the first rejection with feedback takes
\* retry_count from 0 to 1 and ends the session with the retries-exceeded
\* error, only one command ever having been generated; the first rejection
\* routes to generate_command exactly when max_retries >= 2.
C8_FirstRejectionExhaustsOneRetry ==
    /\ (last_node = "retry_node" /\ state.max_retries = 1) =>
            /\ state.retry_count = 1
            /\ stage = "END"
            /\ state.error_message = Some("Maximum retries exceeded")
            /\ gen_calls = 1
    /\ (last_node = "retry_node" /\ state.retry_count = 1) =>
            (stage = "generate_command" <=> state.max_retries >= 2)

C8_Witness ==
    /\ last_node = "retry_node"
    /\ state.max_retries = 1
    /\ state.user_feedback = Some("wrong path")

C10_OncePerShell ==
    \A i, j \in 1..Len(exec_log) :
        i # j => exec_log[i].shell # exec_log[j].shell

\* C11: when try_alternative_shell has run with every shell already
\* attempted (it set the all-shells error), the next node is present_result.
C11_ExhaustedGoesToPresent ==
    ( /\ last_node = "try_alternative_shell"
      /\ state.error_message = Some("Execution failed in all shells") )
    => stage = "present_result"

\* C12: after execute_command, a failed or erred execution on a shell not yet
\* in attempted_shells goes to try_alternative_shell with the shell recorded
\* (from [] on powershell: [powershell]); every other execution goes to
\* validate_result, in particular every execution with return code 0.
C12_RouteAfterExecution ==
    [][ Running("execute_command") =>
        LET result == Val(state'.execution_result)
            failed == result.return_code # 0 \/ result.error # None
        IN  /\ state'.execution_result # None
            /\ IF failed /\ state.shell_type \notin Range(state.attempted_shells)
               THEN /\ stage' = "try_alternative_shell"
                    /\ state'.attempted_shells =
                            Append(state.attempted_shells, state.shell_type)
               ELSE /\ stage' = "validate_result"
                    /\ state'.execution_status \in {"success", "failed"}
            /\ result.return_code = 0 => stage' = "validate_result" ]_vars

C12_Witness ==
    /\ last_node = "execute_command"
    /\ stage = "try_alternative_shell"
    /\ state.attempted_shells = <<"powershell">>
    /\ Val(state.execution_result).return_code = 1

\* C13: when generate_command has failed (it asked for "end"), the engine is
\* at END: await_confirmation is not entered.
C13_GenerationFailureEnds ==
    (last_node = "generate_command" /\ state.next_step = "end")
    => stage = "END"

\* the node a next_step hint names
C14_hint_stage(hint) ==
    CASE hint = "confirm" -> "await_confirmation"
      [] hint = "execute" -> "execute_command"
      [] hint = "validate" -> "validate_result"
      [] hint = "present" -> "present_result"
      [] hint = "generate" -> "generate_command"
      [] hint = "try_alternative" -> "try_alternative_shell"
      [] hint = "end" -> "END"
      [] OTHER -> "UNKNOWN"

\* C14: after a node that returned a next_step, the engine is at the node
\* that hint names.
C14_HintWins ==
    hint_set => stage = C14_hint_stage(state.next_step)

\* C15: after validate_result the next node is analyze_content exactly when
\* requires_analysis is set, else present_result; a failed validation is
\* recorded (validation_passed None, the error text as reasoning) and takes
\* the same route; analyze_content leads to present_result.
C15_RouteAfterValidation ==
    [][ /\ Running("validate_result") =>
            /\ stage' = IF state.requires_analysis = Some(TRUE)
                        THEN "analyze_content" ELSE "present_result"
            /\ state'.validation_reasoning \in
                    {Some("reasoning"), Some("Validation failed")}
            /\ state'.validation_reasoning = Some("Validation failed") =>
                    state'.validation_passed = None
            /\ state'.error_message = state.error_message
        /\ Running("analyze_content") => stage' = "present_result" ]_vars

C15_Witness ==
    /\ last_node = "validate_result"
    /\ state.validation_reasoning = Some("Validation failed")
    /\ state.validation_passed = None
    /\ stage = "analyze_content"

\* C16: at END, execution_result or error_message is set.
C16_TerminalHasResultOrError ==
    stage = "END" =>
        (state.execution_result # None \/ state.error_message # None)

\* C17: in a session whose only execution returned 0, the human confirmed an
\* allowed command, retry_node and try_alternative_shell were not visited,
\* the nodes after execute_command are validate_result, analyze_content only
\* if analysis is required, present_result and END, and without analysis the
\* session ends with return code 0 and no error.
C17_SuccessfulRun ==
    ( /\ Len(exec_log) = 1
      /\ state.execution_result # None
      /\ Val(state.execution_result).return_code = 0 )
    => /\ exec_log[1].allow /\ exec_log[1].confirmed = Some(TRUE)
       /\ state.retry_count = 0
       /\ gen_calls = 1
       /\ state.shell_type = "powershell"
       /\ last_node \in {"execute_command", "validate_result",
                         "analyze_content", "present_result"}
       /\ last_node = "execute_command" => stage = "validate_result"
       /\ last_node = "validate_result" =>
                stage = IF state.requires_analysis = Some(TRUE)
                        THEN "analyze_content" ELSE "present_result"
       /\ last_node = "analyze_content" =>
                (stage = "present_result" /\ state.requires_analysis = Some(TRUE))
       /\ last_node = "present_result" => stage = "END"
       /\ (stage = "END" /\ state.requires_analysis # Some(TRUE)) =>
                state.error_message = None

C17_Witness ==
    /\ stage = "END"
    /\ Len(exec_log) = 1
    /\ Val(state.execution_result).return_code = 0
    /\ state.requires_analysis = Some(FALSE)
    /\ state.error_message = None

\* the commands of the model that contain, in some letter case, a text one
\* of the dangerous patterns matches
C18_DangerousCommands ==
    { "Remove-Item -Recurse -Force C:\\Windows",
      "disable-windowsdefender",
      "Format-Volume -DriveLetter D",
      "Clear-RecycleBin -Force" }

\* C18: assess returns level dangerous and allow = false for every command
\* that matches a dangerous pattern case-insensitively, whether or not a
\* suspicious pattern matches it too.
C18_DangerousIsDenied ==
    \A i \in 1..Len(assess_log) :
        assess_log[i].command \in C18_DangerousCommands =>
            /\ assess_log[i].result.level = "dangerous"
            /\ assess_log[i].result.allow = FALSE

\* a lower-case command that also matches the suspicious pattern "Disable-"
C18_Witness ==
    \E i \in 1..Len(assess_log) :
        /\ assess_log[i].command = "disable-windowsdefender"
        /\ search("Disable-", assess_log[i].command)
        /\ assess_log[i].result.level = "dangerous"

\* C19: assess gives exactly one level: dangerous iff a dangerous pattern
\* matches, suspicious (allowed) iff none does and a suspicious one matches,
\* safe (allowed) iff nothing matches; a dangerous result lists no
\* suspicious pattern and no caution warning; allow is false exactly for
\* dangerous.
C19_Classification ==
    \A i \in 1..Len(assess_log) :
        LET c == assess_log[i].command
            r == assess_log[i].result
            D == {p \in Range(dangerous_patterns) : search(p, c)}
            S == {p \in Range(suspicious_patterns) : search(p, c)}
        IN  /\ r.level \in {"dangerous", "suspicious", "safe"}
            /\ r.level = "dangerous" <=> D # {}
            /\ r.level = "suspicious" <=> (D = {} /\ S # {})
            /\ r.level = "safe" <=> (D = {} /\ S = {})
            /\ r.allow <=> r.level # "dangerous"
            /\ D # {} =>
                /\ Range(r.matched_patterns) = D
                /\ Range(r.matched_patterns) \cap Range(suspicious_patterns) = {}
                /\ \A w \in Range(r.warnings) : w[1] = "DANGER"
                /\ Len(r.warnings) = Len(r.matched_patterns)
            /\ D = {} => Range(r.matched_patterns) = S

C19_Witness ==
    /\ Len(assess_log) = 3
    /\ assess_log[1].result.level = "dangerous"
    /\ \E p \in Range(suspicious_patterns) : search(p, assess_log[1].command)
    /\ assess_log[2].result.level = "suspicious"
    /\ Len(assess_log[2].result.matched_patterns) = 2
    /\ assess_log[3].result.level = "safe"

\* C20: two calls of assess on the same command return the same result,
\* whatever was assessed in between, and no call changes a pattern list.
C20_AssessDeterministic ==
    /\ dangerous_patterns = DANGEROUS_PATTERNS
    /\ suspicious_patterns = SUSPICIOUS_PATTERNS
    /\ \A i, j \in 1..Len(assess_log) :
            assess_log[i].command = assess_log[j].command =>
                assess_log[i].result = assess_log[j].result

C20_Witness ==
    /\ Len(assess_log) = 3
    /\ assess_log[1].command = "Stop-Process -Name notepad"
    /\ assess_log[2].command = "Remove-Item old.log; Stop-Process -Name notepad"
    /\ assess_log[3].command = assess_log[1].command

\* whether the subprocess of a call was launched and ran past the timeout
ran_past_timeout(c) ==
    c.process.kind \in {"runs", "run_error"} /\ c.process.duration > c.timeout

finished_in_time(c) ==
    c.process.kind = "runs" /\ c.process.duration <= c.timeout

\* C21: for each of the three methods, a subprocess that does not finish
\* within the timeout is killed and the result has timed_out = true and
\* return_code = -1; one that finishes in time is not killed and the result
\* has timed_out = false and the subprocess's own return code.
C21_TimeoutResult ==
    call # None =>
        LET c == Val(call)
        IN  /\ ran_past_timeout(c) =>
                /\ ~c.outcome.raised
                /\ c.outcome.killed
                /\ c.outcome.result.timed_out
                /\ c.outcome.result.return_code = -1
            /\ finished_in_time(c) =>
                /\ ~c.outcome.raised
                /\ ~c.outcome.killed
                /\ ~c.outcome.result.timed_out
                /\ c.outcome.result.return_code = c.process.returncode

\* a cmd.exe subprocess with exit code 1 that ran past the timeout
C21_Witness ==
    /\ call # None
    /\ Val(call).method = "execute_cmd"
    /\ Val(call).process.kind = "runs"
    /\ Val(call).process.returncode = 1
    /\ ran_past_timeout(Val(call))
    /\ Val(call).outcome.result.timed_out

\* whether the launch, or communicate() before the timeout, raised
launch_or_run_failed(c) ==
    \/ c.process.kind = "launch_error"
    \/ c.process.kind = "run_error" /\ c.process.duration <= c.timeout

\* C22: for each of the three methods, a failure to launch or to run the
\* subprocess does not leave the method as an exception: the call returns a
\* result with return_code = -1, the error text in stderr and
\* timed_out = false.
C22_FailureIsAResult ==
    call # None =>
        LET c == Val(call)
        IN  launch_or_run_failed(c) =>
                /\ ~c.outcome.raised
                /\ c.outcome.result.return_code = -1
                /\ c.outcome.result.stderr = c.process.error
                /\ ~c.outcome.result.timed_out

\* bash could not be launched
C22_Witness ==
    /\ call # None
    /\ Val(call).method = "execute_bash"
    /\ Val(call).process.kind = "launch_error"
    /\ ~Val(call).outcome.raised

\* the two texts a call has before the truncation
text_before_truncation(c) ==
    IF ran_past_timeout(c)
    THEN [stdout |-> <<>>, stderr |-> timed_out_message(c.timeout)]
    ELSE [stdout |-> decode(c.process.stdout), stderr |-> decode(c.process.stderr)]

\* `result` is `text` cut at `ceiling` with `marker` appended, or `text`
\* itself when it is not longer than `ceiling`
C23_cut(text, result, marker, ceiling) ==
    IF Len(text) > ceiling
    THEN /\ Len(result) = ceiling + Len(marker)
         /\ SubSeq(result, 1, ceiling) = SubSeq(text, 1, ceiling)
         /\ SubSeq(result, ceiling + 1, Len(result)) = marker
    ELSE result = text

C24_SessionsDoNotInterfere ==
    [][ /\ \A i, j \in 1..Len(requests') :
                i # j => requests'[i].thread_id # requests'[j].thread_id
        /\ \A i \in 1..Len(requests) :
                i < Len(requests') =>
                    checkpoint(requests[i].thread_id)'
                        = checkpoint(requests[i].thread_id) ]_vars

C26_RetryCountFrame ==
    /\ state.retry_count = 0
    /\ [][ IF stage = "retry_node"
           THEN state'.retry_count = state.retry_count + 1
           ELSE state'.retry_count = state.retry_count ]_vars

\* the second visit of retry_node has run
C26_Witness ==
    /\ last_node = "retry_node"
    /\ state.retry_count = 2
    /\ gen_calls = 2

\* C27: for every step of the engine the set of attempted shells after the
\* step contains the set before the step.
C27_AttemptedShellsGrow ==
    [][ Range(state.attempted_shells) \subseteq Range(state'.attempted_shells) ]_vars

\* an execution in a shell that was recorded before, next to another one
C27_Witness ==
    /\ last_node = "execute_command"
    /\ exec_log # <<>>
    /\ exec_log[Len(exec_log)].shell \in Range(exec_log[Len(exec_log)].attempted)
    /\ Len(state.attempted_shells) >= 2

\* the first shell in the order Primary, Secondary, Tertiary that is not
\* in attempted
C28_expected_shell(attempted) ==
    LET order == <<"powershell", "cmd", "bash">>
        first == CHOOSE i \in 1..3 :
                    /\ order[i] \notin Range(attempted)
                    /\ \A j \in 1..(i - 1) : order[j] \in Range(attempted)
    IN  order[first]

\* C28: when try_alternative_shell runs with a shell left to try and the
\* regeneration succeeds, shell_type becomes the first shell of the order
\* powershell, cmd, bash that is not in attempted_shells, generated_command
\* is the regenerated command, user_confirmed is true and the next stage is
\* execute_command.
C28_AlternativeShellStep ==
    [][ ( /\ stage = "try_alternative_shell"
          /\ \E sh \in ShellKinds : sh \notin Range(state.attempted_shells)
          /\ state'.next_step = "execute" )
        =>
        ( /\ state'.shell_type = C28_expected_shell(state.attempted_shells)
          /\ gen_calls' = gen_calls + 1
          /\ \E gen \in GenerationResults :
                gen.ok /\ state'.generated_command = Some(gen.command)
          /\ state'.user_confirmed = Some(TRUE)
          /\ stage' = "execute_command" ) ]_vars

\* the fallback from powershell picked cmd although bash was untried too
C28_Witness ==
    /\ last_node = "try_alternative_shell"
    /\ state.next_step = "execute"
    /\ state.attempted_shells = <<"powershell">>
    /\ state.shell_type = "cmd"
    /\ stage = "execute_command"

\* C29: an execution that ends in a launch or runtime fault of the
\* subprocess is not given the status "failed", and when its shell was
\* already in attempted_shells the next stage is present_result.
C29_FaultGoesToPresent ==
    ( /\ last_node = "execute_command"
      /\ state.execution_result # None
      /\ Val(state.execution_result).error # None )
    =>
    ( /\ state.execution_status # "failed"
      /\ exec_log[Len(exec_log)].shell \in Range(exec_log[Len(exec_log)].attempted)
            => stage = "present_result" )

\* C30: analyze_content is followed by present_result and present_result by
\* the end of the graph; when the analysis raised, the error text is
\* recorded and analysis_result stays absent.
C30_AnalysisThenPresent ==
    [][ /\ stage = "analyze_content" =>
            /\ stage' = "present_result"
            /\ state'.error_type = Some("analysis_error") =>
                    /\ TruthyStr(state'.error_message)
                    /\ state'.analysis_result = None
        /\ stage = "present_result" => stage' = "END" ]_vars

\* a session whose analysis raised has been presented and has ended
C30_Witness ==
    /\ last_node = "present_result"
    /\ stage = "END"
    /\ state.error_type = Some("analysis_error")
    /\ state.analysis_result = None

ConfirmationFields == {"user_confirmed", "user_feedback", "confirmation_timestamp"}

\* C31: the merge of the human decision changes only user_confirmed,
\* user_feedback and confirmation_timestamp: every other field of the
\* checkpointed state has after the merge the value it had at suspension.
C31_ResumeMergeFrame ==
    [][ suspended =>
            /\ suspend_snap # None
            /\ \A k \in DOMAIN state \ ConfirmationFields :
                    /\ state'[k] = state[k]
                    /\ state'[k] = Val(suspend_snap).state[k]
            /\ DOMAIN state' = DOMAIN state ]_vars

\* a decision was merged over a checkpoint that holds a generated command
C31_Witness ==
    /\ ~suspended
    /\ stage = "await_confirmation"
    /\ suspend_snap # None
    /\ state.user_confirmed = Some(FALSE)
    /\ state.user_feedback = Some("wrong path")
    /\ state.generated_command # None
    /\ state.generated_command = Val(suspend_snap).state.generated_command

\* C32: when the regeneration inside try_alternative_shell fails, the node
\* records an alternative-generation error, the next stage is
\* present_result (the executor is not called again), and shell_type and
\* generated_command are unchanged.
C32_AlternativeFailureGoesToPresent ==
    [][ ( /\ stage = "try_alternative_shell"
          /\ \E sh \in ShellKinds : sh \notin Range(state.attempted_shells)
          /\ state'.next_step = "present" )
        =>
        ( /\ state'.error_type = Some("alternative_generation_error")
          /\ stage' = "present_result"
          /\ state'.shell_type = state.shell_type
          /\ state'.generated_command = state.generated_command ) ]_vars

\* the error messages of a failed generation, of a fallback that ran out of
\* shells, of the retries running out and of a safety block
C33_errors ==
    { Some("generation failed"), Some("Execution failed in all shells"),
      Some("Maximum retries exceeded"), Some("Command blocked") }

\* C33: when the graph has ended and the final state carries one of these
\* error messages, the caller displays that message, whether or not the
\* final state carries an execution_result too.
C33_ErrorIsSurfaced ==
    (stage = "END" /\ state.error_message \in C33_errors)
        => display_results(state).error = state.error_message

\* C34: the executor is invoked only under a recorded confirmation: in every
\* state where execute_command is about to run, and in every state where
\* try_alternative_shell is about to run, user_confirmed is true; the only
\* step that turns user_confirmed into true is the merge of a human decision
\* made while the graph is suspended, so the value try_alternative_shell
\* writes follows an execution the human confirmed.
C34_ExecuteOnlyWhenConfirmed ==
    /\ [](/\ stage = "execute_command" => state.user_confirmed = Some(TRUE)
          /\ stage = "try_alternative_shell" =>
                /\ state.user_confirmed = Some(TRUE)
                /\ exec_log # <<>>
          /\ \A i \in 1..Len(exec_log) : exec_log[i].confirmed = Some(TRUE))
    /\ [][ (state'.user_confirmed = Some(TRUE) /\ state.user_confirmed # Some(TRUE))
            => (suspended /\ ~suspended' /\ stage = "await_confirmation") ]_vars

C34_Witness ==
    /\ stage = "execute_command"
    /\ last_node = "try_alternative_shell"
    /\ state.shell_type = "cmd"
    /\ state.user_confirmed = Some(TRUE)
    /\ Len(exec_log) = 1
    /\ exec_log[1].confirmed = Some(TRUE)

\* C35: a decision covers one generated command: whenever await_confirmation
\* is about to run on a command that generate_command has just produced,
\* that the safety assessment allows and that no decision was asked for yet,
\* in a session without a safety block, the graph suspends for a new decision.
C35_EachCommandIsConfirmedAnew ==
    [][ ( /\ stage = "await_confirmation"
          /\ ~suspended
          /\ suspend_snap = None
          /\ ~blocked
          /\ last_node = "generate_command"
          /\ state.next_step = "confirm"
          /\ Val(state.safety_assessment).allow )
        => suspended' ]_vars

\* the filter's verdict on the command the state holds
C36_verdict_matches(s) ==
    /\ s.safety_assessment # None
    /\ Val(s.safety_assessment).level = assess(Val(s.generated_command)).level
    /\ Val(s.safety_assessment).allow = assess(Val(s.generated_command)).allow

\* C36: whenever generated_command is set, safety_assessment is the filter's
\* assessment of that same command; the two fields change only in
\* generate_command and try_alternative_shell, and a generation that fails
\* there (hint "end", respectively "present") leaves both as they were.
C36_VerdictBelongsToCommand ==
    /\ [](state.generated_command # None => C36_verdict_matches(state))
    /\ [][ /\ ( \/ state'.generated_command # state.generated_command
                \/ state'.safety_assessment # state.safety_assessment )
               => /\ stage \in {"generate_command", "try_alternative_shell"}
                  /\ state'.generated_command # None
                  /\ C36_verdict_matches(state')
           /\ ( \/ stage = "generate_command" /\ state'.next_step = "end"
                \/ stage = "try_alternative_shell" /\ state'.next_step = "present" )
               => /\ state'.generated_command = state.generated_command
                  /\ state'.safety_assessment = state.safety_assessment ]_vars

\* try_alternative_shell replaced the executed command, which the filter
\* found safe, by another command whose assessment is not "safe"
C36_Witness ==
    /\ last_node = "try_alternative_shell"
    /\ state.shell_type = "cmd"
    /\ Len(exec_log) = 1
    /\ state.generated_command # exec_log[1].command
    /\ assess(Val(exec_log[1].command)).level = "safe"
    /\ Val(state.safety_assessment).level # "safe"

\* C37: the hint retry_node writes and the edge taken after retry_node
\* agree: the hint is "end" exactly when the graph ends, and "generate"
\* exactly when generate_command runs next.
C37_RetryHintAgreesWithRouter ==
    [][ (stage = "retry_node" /\ ~suspended)
        => /\ state'.next_step \in {"end", "generate"}
           /\ (state'.next_step = "end") <=> (stage' = "END")
           /\ (state'.next_step = "generate") <=> (stage' = "generate_command")
           /\ (state'.next_step = "end")
                <=> (route_after_retry(state') = "end") ]_vars

\* the retry that reaches the limit: the second rejection of a session with
\* max_retries = 2 ends the graph, after a first retry that regenerated
C37_Witness ==
    /\ last_node = "retry_node"
    /\ stage = "END"
    /\ state.max_retries = 2
    /\ state.retry_count = 2
    /\ state.next_step = "end"
    /\ gen_calls = 2

\* C38: every session terminates: the graph eventually reaches END, so no
\* loop through retry_node and generate_command or through execute_command
\* and try_alternative_shell goes on for ever, and no exception raised
\* inside a node ends the stream before END.
C38_EverySessionTerminates == <>(stage = "END")

\* C39: shell_type changes only in a step of try_alternative_shell, and then
\* to a shell that is not in attempted_shells before the step; every other
\* node and the merge of the human's decision leave it as it is.  So when
\* execute_command is about to run on a shell that attempted_shells already
\* holds, the step before was a try_alternative_shell that did not change
\* shell_type (its hint is "present").
C39_ShellChangesOnlyInFallback ==
    /\ [][ state'.shell_type # state.shell_type
            => /\ stage = "try_alternative_shell"
               /\ ~suspended
               /\ state'.shell_type \notin Range(state.attempted_shells)
               /\ state'.shell_type \in ShellKinds ]_vars
    /\ []( (stage = "execute_command"
             /\ state.shell_type \in Range(state.attempted_shells))
           => (last_node = "try_alternative_shell"
               /\ state.next_step = "present") )

\* the second fallback: bash is chosen while powershell and cmd are recorded
C39_Witness ==
    /\ stage = "execute_command"
    /\ last_node = "try_alternative_shell"
    /\ state.shell_type = "bash"
    /\ state.attempted_shells = <<"powershell", "cmd">>
    /\ Len(exec_log) = 2

====
